---- MODULE Spec2Model ----
(***************************************************************************)
(* Model of Auto_sanitization.py / Auto_sanitization_manual.py: the        *)
(* character shift maps, the edge cipher, sanitize / desanitize, the       *)
(* memoization helpers, the streaming xlsx rewrite loop and the DataFrame  *)
(* rewrite of a .csv file.                                                 *)
(*                                                                         *)
(* A Python str is a sequence of one-character strings; a cell value is a  *)
(* record [kind, s, n] (see the constructors below).                       *)
(***************************************************************************)
EXTENDS Integers, Sequences, FiniteSets, TLC

VARIABLES
    c_in, c_out, c_calls,          \* one character and the shift calls applied to it
    value, result, calls,          \* one cell value and the cipher calls applied to it
    cache, direction, vals, rets, hits, computed,   \* one memoized column pass
    variant, mode, SANITIZATION_COLUMNS, DESANITIZATION_COLUMNS, pc,
    row_index, row_list, new_header, new_row, processed_indices, cache_dict,
    n_written,                     \* the streaming rewrite of a workbook
    col_input, config_file,        \* main(): the answer to "use the default column
                                   \* list?" and the mapping file that was loaded
    df_in, df, columns_with_index, \* the rewrite of a .csv file: the frame as
                                   \* read, the frame, the columns still to do
    cache_owner, cache_reads       \* history of cache_dict: the column that wrote
                                   \* each entry, and the hits of the last row

charVars   == <<c_in, c_out, c_calls>>
cipherVars == <<value, result, calls>>
memoVars   == <<cache, direction, vals, rets, hits, computed>>
engineVars == <<variant, mode, SANITIZATION_COLUMNS, DESANITIZATION_COLUMNS, pc,
                row_index, row_list, new_header, new_row, processed_indices,
                cache_dict, n_written>>
mainVars   == <<col_input, config_file>>
frameVars  == <<df_in, df, columns_with_index>>
traceVars  == <<cache_owner, cache_reads>>
runVars    == <<engineVars, mainVars, frameVars, traceVars>>
vars       == <<charVars, cipherVars, memoVars, runVars>>

-----------------------------------------------------------------------------
(* Bounds of the model *)

\* longest enumerated text cell
MaxLen == 4
\* longest chain of calls applied to one character
MaxCharCalls == 2
\* longest chain of cipher calls applied to one value
MaxCalls == 2

-----------------------------------------------------------------------------
(* Characters *)

lowercase == <<"a", "b", "c", "d", "e", "f", "g", "h", "i", "j", "k", "l", "m",
               "n", "o", "p", "q", "r", "s", "t", "u", "v", "w", "x", "y", "z">>
uppercase == <<"A", "B", "C", "D", "E", "F", "G", "H", "I", "J", "K", "L", "M",
               "N", "O", "P", "Q", "R", "S", "T", "U", "V", "W", "X", "Y", "Z">>
digits    == <<"0", "1", "2", "3", "4", "5", "6", "7", "8", "9">>

Range(seq) == {seq[i] : i \in 1..Len(seq)}
IndexOf(seq, c) == CHOOSE i \in 1..Len(seq) : seq[i] = c

\* characters outside the three ranges that the model draws from
Symbols == {"_", " ", "\t", "/", ".", "-", "(", ")"}
Chars == Range(lowercase) \cup Range(uppercase) \cup Range(digits) \cup Symbols

\* the last character of a range not wrapping to the first
next_in_range_nowrap(range, i) == IF i < Len(range) THEN range[i + 1] ELSE range[i]
\* chr(i + 1) if i < ord('z') else 'a'   (i is the 1-based position in the range)
next_in_range(range, i) == IF i < Len(range) THEN range[i + 1] ELSE range[1]

\* digits[(i + 1) % 10]   (i is the 0-based index of the loop)
next_digit(i) == digits[((i + 1) % 10) + 1]

\* the three loops' assignments _forward_map[c] = nxt_c
forward_map ==
    [c \in Range(lowercase) \cup Range(uppercase) \cup Range(digits) |->
        IF c \in Range(lowercase) THEN next_in_range(lowercase, IndexOf(lowercase, c))
        ELSE IF c \in Range(uppercase) THEN next_in_range(uppercase, IndexOf(uppercase, c))
        ELSE next_digit(IndexOf(digits, c) - 1)]

\* position of c in the order the loops visit the characters
LoopOrder == lowercase \o uppercase \o digits

\* the three loops' assignments _backward_map[nxt_c] = c: a later assignment
\* to the same key overwrites an earlier one
backward_map ==
    [d \in {forward_map[c] : c \in DOMAIN forward_map} |->
        LET writers == {i \in 1..Len(LoopOrder) : forward_map[LoopOrder[i]] = d}
            last    == CHOOSE i \in writers : \A j \in writers : j <= i
        IN  LoopOrder[last]]

shift_char_forward(c) ==
    IF c = "_" THEN c
    ELSE IF c \in DOMAIN forward_map THEN forward_map[c] ELSE c

\* a, A and 0 not wrapping back to z, Z and 9
shift_char_backward_nowrap(c) ==
    IF c = "_" THEN c
    ELSE IF c \in DOMAIN backward_map /\ c \notin {"a", "A", "0"} THEN backward_map[c] ELSE c
shift_char_backward(c) ==
    IF c = "_" THEN c
    ELSE IF c \in DOMAIN backward_map THEN backward_map[c] ELSE c

\* the backward shift never chosen
call_forward_only(shift_func, c) == shift_char_forward(c)
\* shift_func(arr[i]): a shift function passed by name
call(shift_func, c) ==
    IF shift_func = "shift_char_forward" THEN shift_char_forward(c)
    ELSE shift_char_backward(c)

-----------------------------------------------------------------------------
(* Python str helpers used by the code *)

Whitespace == {" ", "\t"}

\* str.lower()
lower(s) ==
    [i \in 1..Len(s) |->
        IF s[i] \in Range(uppercase) THEN lowercase[IndexOf(uppercase, s[i])] ELSE s[i]]

\* str.strip()
RECURSIVE lstrip(_)
lstrip(s) == IF s # <<>> /\ Head(s) \in Whitespace THEN lstrip(Tail(s)) ELSE s
RECURSIVE rstrip(_)
rstrip(s) ==
    IF s # <<>> /\ s[Len(s)] \in Whitespace THEN rstrip(SubSeq(s, 1, Len(s) - 1)) ELSE s
strip(s) == rstrip(lstrip(s))

-----------------------------------------------------------------------------
(* Cell values: None, str, int, a finite float (in tenths), bool *)

None      == [kind |-> "none",  s |-> <<>>, n |-> 0]
Text(s)   == [kind |-> "str",   s |-> s,    n |-> 0]
IntV(n)   == [kind |-> "int",   s |-> <<>>, n |-> n]
FloatV(t) == [kind |-> "float", s |-> <<>>, n |-> t]
BoolV(b)  == [kind |-> "bool",  s |-> <<>>, n |-> IF b THEN 1 ELSE 0]
\* the missing cell of a DataFrame (np.nan): one object, which a dict finds
\* by identity
NaN       == [kind |-> "nan",   s |-> <<>>, n |-> 0]

\* decimal digits of a natural number
RECURSIVE decimal(_)
decimal(n) ==
    IF n < 10 THEN <<digits[n + 1]>>
    ELSE decimal(n \div 10) \o <<digits[(n % 10) + 1]>>

\* str(value)
str(v) ==
    CASE v.kind = "str"   -> v.s
      [] v.kind = "int"   -> decimal(v.n)
      [] v.kind = "float" -> decimal(v.n \div 10) \o <<".">> \o decimal(v.n % 10)
      [] v.kind = "bool"  -> IF v.n = 1 THEN <<"T", "r", "u", "e">>
                                        ELSE <<"F", "a", "l", "s", "e">>
      [] v.kind = "none"  -> <<"N", "o", "n", "e">>
      [] v.kind = "nan"   -> <<"n", "a", "n">>

-----------------------------------------------------------------------------
(* Edge cipher *)

count_default == 2

\* second scan starting one position early
shift_edges_chars_offbyone(s, shift_func, count) ==
    LET length == Len(s)
        RECURSIVE first_loop(_, _, _)
        first_loop(arr, shifted, i) ==
            IF shifted < count /\ i < length
            THEN IF arr[i + 1] # " "
                 THEN first_loop([arr EXCEPT ![i + 1] = call(shift_func, arr[i + 1])],
                                 shifted + 1, i + 1)
                 ELSE first_loop(arr, shifted, i + 1)
            ELSE arr
        RECURSIVE last_loop(_, _, _)
        last_loop(arr, shifted, i) ==
            IF shifted < count /\ i >= 0
            THEN IF arr[i + 1] # " "
                 THEN last_loop([arr EXCEPT ![i + 1] = call(shift_func, arr[i + 1])],
                                shifted + 1, i - 1)
                 ELSE last_loop(arr, shifted, i - 1)
            ELSE arr
    IN  last_loop(first_loop(s, 0, 0), 0, length - 2)

\* i is the 0-based Python index; arr[i + 1] is the 1-based element
shift_edges_chars(s, shift_func, count) ==
    LET length == Len(s)
        RECURSIVE first_loop(_, _, _)
        first_loop(arr, shifted, i) ==
            IF shifted < count /\ i < length
            THEN IF arr[i + 1] # " "
                 THEN first_loop([arr EXCEPT ![i + 1] = call(shift_func, arr[i + 1])],
                                 shifted + 1, i + 1)
                 ELSE first_loop(arr, shifted, i + 1)
            ELSE arr
        RECURSIVE last_loop(_, _, _)
        last_loop(arr, shifted, i) ==
            IF shifted < count /\ i >= 0
            THEN IF arr[i + 1] # " "
                 THEN last_loop([arr EXCEPT ![i + 1] = call(shift_func, arr[i + 1])],
                                shifted + 1, i - 1)
                 ELSE last_loop(arr, shifted, i - 1)
            ELSE arr
    IN  last_loop(first_loop(s, 0, 0), 0, length - 1)

NA == <<"N", "/", "A">>

\* sanitize without the lower() of the sentinel test
sanitize_case_sensitive(v) ==
    IF v = None THEN NA
    ELSE LET s == str(v)
         IN  IF strip(s) = <<>> \/ s \in {<<"n", "a", "n">>, <<"n", "o", "n", "e">>}
             THEN NA
             ELSE shift_edges_chars(s, "shift_char_forward", count_default)
sanitize(v) ==
    IF v = None THEN NA
    ELSE LET s == str(v)
         IN  IF strip(s) = <<>> \/ lower(s) \in {<<"n", "a", "n">>, <<"n", "o", "n", "e">>}
             THEN NA
             ELSE shift_edges_chars(s, "shift_char_forward", count_default)

\* desanitize that maps the sentinel back to the empty string
desanitize_sentinel(v) ==
    IF v = None THEN <<>>
    ELSE LET s == str(v)
         IN  IF s = NA THEN <<>>
             ELSE shift_edges_chars(s, "shift_char_backward", count_default)
desanitize(v) ==
    IF v = None THEN <<>>
    ELSE LET s == str(v)
         IN  shift_edges_chars(s, "shift_char_backward", count_default)

-----------------------------------------------------------------------------
(* Memoization: a dict keyed by the raw value.  Python finds a key by hash  *)
(* and ==, and 1 == 1.0 == True (0 == 0.0 == False) with equal hashes.      *)

Numeric == {"int", "float", "bool"}

\* the number a numeric value stands for, in tenths
tenths(v) == IF v.kind = "float" THEN v.n ELSE 10 * v.n

\* a == b of Python, for the kinds of value a cell holds
py_eq(a, b) ==
    IF a.kind \in Numeric /\ b.kind \in Numeric THEN tenths(a) = tenths(b)
    ELSE a = b

\* a dict is a set of entries [k, v], no two keys equal under ==
contains(d, val) == \E e \in d : py_eq(e.k, val)
getitem(d, val) == (CHOOSE e \in d : py_eq(e.k, val)).v
setitem(d, val, res) ==
    IF contains(d, val)
    THEN {IF py_eq(e.k, val) THEN [k |-> e.k, v |-> res] ELSE e : e \in d}
    ELSE d \cup {[k |-> val, v |-> res]}

\* returns the result, the dict after the call and whether sanitize was skipped
memo_sanitize(val, d) ==
    IF contains(d, val)
    THEN [ret |-> getitem(d, val), cache |-> d, hit |-> TRUE]
    ELSE LET res == sanitize(val)
         IN  [ret |-> res, cache |-> setitem(d, val, res), hit |-> FALSE]

memo_desanitize(val, d) ==
    IF contains(d, val)
    THEN [ret |-> getitem(d, val), cache |-> d, hit |-> TRUE]
    ELSE LET res == desanitize(val)
         IN  [ret |-> res, cache |-> setitem(d, val, res), hit |-> FALSE]

-----------------------------------------------------------------------------
(* Column policies *)

DEFAULT_SANITIZATION_COLUMNS ==
    (<<"e", "x", "t", "e", "r", "n", "a", "l", " ", "p", "a", "r", "t">> :> <<"e", "x", "t", "e", "r", "n", "a", "l", "_", "p", "a", "r", "t", "_", "s", "a", "n", "i", "t", "i", "z", "e", "d">>)
    @@ (<<"e", "x", "_", "p", "a", "r", "t">> :> <<"e", "x", "t", "e", "r", "n", "a", "l", "_", "p", "a", "r", "t", "_", "s", "a", "n", "i", "t", "i", "z", "e", "d">>)
    @@ (<<"i", "n", "t", "e", "r", "n", "a", "l", " ", "p", "a", "r", "t">> :> <<"i", "n", "t", "e", "r", "n", "a", "l", "_", "p", "a", "r", "t", "_", "s", "a", "n", "i", "t", "i", "z", "e", "d">>)
    @@ (<<"i", "n", "t", "e", "r", "n", "a", "l", " ", "p", "a", "r", "t", "(", "o", "l", "d", ")">> :> <<"i", "n", "t", "e", "r", "n", "a", "l", " ", "p", "a", "r", "t", "(", "o", "l", "d", ")", "_", "s", "a", "n", "i", "t", "i", "z", "e", "d">>)
    @@ (<<"i", "n", "t", "e", "r", "n", "a", "l", " ", "p", "a", "r", "t", "(", "n", "e", "w", ")">> :> <<"i", "n", "t", "e", "r", "n", "a", "l", " ", "p", "a", "r", "t", "(", "n", "e", "w", ")", "_", "s", "a", "n", "i", "t", "i", "z", "e", "d">>)

DEFAULT_DESANITIZATION_COLUMNS ==
    (<<"e", "x", "t", "e", "r", "n", "a", "l", " ", "p", "a", "r", "t", " ", "i", "d">> :> <<"E", "x", "t", "e", "r", "n", "a", "l", " ", "P", "a", "r", "t">>)

\* dict.get(key, default)
get(d, key, default) == IF key \in DOMAIN d THEN d[key] ELSE default

\* get_sanitized_column_name looking the name up as typed
get_sanitized_column_name_as_typed(columns, original) ==
    get(columns, original, original \o <<"_", "s", "a", "n", "i", "t", "i", "z", "e", "d">>)

get_sanitized_column_name(columns, original) ==
    get(columns, lower(original), original \o <<"_", "s", "a", "n", "i", "t", "i", "z", "e", "d">>)

get_desanitized_column_name(columns, original) ==
    get(columns, lower(original), original \o <<"_", "d", "e", "s", "a", "n", "i", "t", "i", "z", "e", "d">>)

\* {k.lower(): v for k, v in mapping.items()}: a later item overwrites an
\* earlier one with the same lowered key
RECURSIVE lowered_keys(_)
lowered_keys(items) ==
    IF items = <<>> THEN <<>>
    ELSE LET it == items[Len(items)]
         IN  (lower(it[1]) :> it[2]) @@ lowered_keys(SubSeq(items, 1, Len(items) - 1))

\* the mapping file: its JSON items in order, or unreadable (absent or not
\* JSON), for which the except branch returns {}
Unreadable == [readable |-> FALSE, items |-> <<>>]
Mapping(items) == [readable |-> TRUE, items |-> items]

\* the loader falling back to the built-in list when the file cannot be read
load_global_sanitization_config_or_default(file) ==
    IF ~file.readable THEN DEFAULT_SANITIZATION_COLUMNS ELSE lowered_keys(file.items)

load_global_sanitization_config(file) ==
    IF ~file.readable THEN <<>> ELSE lowered_keys(file.items)

load_global_desanitization_config(file) ==
    IF ~file.readable THEN <<>> ELSE lowered_keys(file.items)

-----------------------------------------------------------------------------
(* The header row and the data rows of a sheet *)

\* the header loop of process_xlsx_sanitization_streaming that keeps the
\* original name and appends the output name after it
sanitize_header_append(var, columns, row) ==
    LET RECURSIVE loop(_, _, _)
        loop(col_index, header, indices) ==
            IF col_index >= Len(row) THEN [raised |-> FALSE, new_header |-> header,
                                           processed_indices |-> indices]
            ELSE LET col_name == row[col_index + 1]
                 IN  IF col_name = None THEN loop(col_index + 1, Append(header, col_name), indices)
                     ELSE IF var = "auto" /\ col_name.kind # "str"
                     THEN [raised |-> TRUE, new_header |-> <<>>, processed_indices |-> {}]
                     ELSE IF lower(str(col_name)) \in DOMAIN columns
                     THEN loop(col_index + 1,
                               header \o <<col_name,
                                           Text(get_sanitized_column_name(columns, str(col_name)))>>,
                               indices \cup {col_index})
                     ELSE loop(col_index + 1, Append(header, col_name), indices)
    IN  loop(0, <<>>, {})

\* the header loop selecting every named cell, matched by the policy or not
sanitize_header_unconditional(var, columns, row) ==
    LET RECURSIVE loop(_, _, _)
        loop(col_index, header, indices) ==
            IF col_index >= Len(row) THEN [raised |-> FALSE, new_header |-> header,
                                           processed_indices |-> indices]
            ELSE LET col_name == row[col_index + 1]
                 IN  IF col_name = None THEN loop(col_index + 1, Append(header, col_name), indices)
                     ELSE IF var = "auto" /\ col_name.kind # "str"
                     THEN [raised |-> TRUE, new_header |-> <<>>, processed_indices |-> {}]
                     ELSE loop(col_index + 1,
                               Append(header,
                                      Text(get_sanitized_column_name(columns, str(col_name)))),
                               indices \cup {col_index})
    IN  loop(0, <<>>, {})

\* the header loop of process_xlsx_sanitization_streaming.  In
\* Auto_sanitization.py col_name.lower() raises AttributeError on a header
\* cell that is not a str; Auto_sanitization_manual.py lowers str(col_name).
sanitize_header(var, columns, row) ==
    LET RECURSIVE loop(_, _, _)
        loop(col_index, header, indices) ==
            IF col_index >= Len(row) THEN [raised |-> FALSE, new_header |-> header,
                                           processed_indices |-> indices]
            ELSE LET col_name == row[col_index + 1]
                 IN  IF col_name = None THEN loop(col_index + 1, Append(header, col_name), indices)
                     ELSE IF var = "auto" /\ col_name.kind # "str"
                     THEN [raised |-> TRUE, new_header |-> <<>>, processed_indices |-> {}]
                     ELSE IF lower(str(col_name)) \in DOMAIN columns
                     THEN loop(col_index + 1,
                               Append(header,
                                      Text(get_sanitized_column_name(columns, str(col_name)))),
                               indices \cup {col_index})
                     ELSE loop(col_index + 1, Append(header, col_name), indices)
    IN  loop(0, <<>>, {})

\* the header loop of process_xlsx_desanitization_streaming.  In
\* Auto_sanitization.py the test is col_name == 'External part ID'.
desanitize_header(var, columns, row) ==
    LET RECURSIVE loop(_, _, _)
        loop(col_index, header, indices) ==
            IF col_index >= Len(row) THEN [raised |-> FALSE, new_header |-> header,
                                           processed_indices |-> indices]
            ELSE LET col_name == row[col_index + 1]
                 IN  IF var = "auto"
                     THEN IF col_name = Text(<<"E", "x", "t", "e", "r", "n", "a", "l", " ", "p", "a", "r", "t", " ", "I", "D">>)
                          THEN loop(col_index + 1, Append(header, Text(<<"E", "x", "t", "e", "r", "n", "a", "l", " ", "P", "a", "r", "t">>)),
                                    indices \cup {col_index})
                          ELSE loop(col_index + 1, Append(header, col_name), indices)
                     ELSE IF col_name # None /\ lower(str(col_name)) \in DOMAIN columns
                     THEN loop(col_index + 1,
                               Append(header,
                                      Text(get_desanitized_column_name(columns, str(col_name)))),
                               indices \cup {col_index})
                     ELSE loop(col_index + 1, Append(header, col_name), indices)
    IN  loop(0, <<>>, {})

memo(dir, val, d) == IF dir = "sanitize" THEN memo_sanitize(val, d) ELSE memo_desanitize(val, d)

\* the data-row loop putting every cell through the cache
data_row_every_cell(dir, indices, row, d) ==
    LET RECURSIVE loop(_, _, _)
        loop(col_index, out, c) ==
            IF col_index >= Len(row) THEN [new_row |-> out, cache_dict |-> c]
            ELSE LET r == memo(dir, row[col_index + 1], c)
                 IN  loop(col_index + 1, Append(out, Text(r.ret)), r.cache)
    IN  loop(0, <<>>, d)

\* the data-row loop of both streaming functions: one output cell per cell of
\* row_list, the cells at processed_indices through the sheet's cache_dict
data_row(dir, indices, row, d) ==
    LET RECURSIVE loop(_, _, _)
        loop(col_index, out, c) ==
            IF col_index >= Len(row) THEN [new_row |-> out, cache_dict |-> c]
            ELSE LET val == row[col_index + 1]
                 IN  IF col_index \in indices
                     THEN LET r == memo(dir, val, c)
                          IN  loop(col_index + 1, Append(out, Text(r.ret)), r.cache)
                     ELSE loop(col_index + 1, Append(out, val), c)
    IN  loop(0, <<>>, d)

\* what the data-row loop does to the sheet's cache_dict: owner gains the
\* column index of every entry stored, reads lists the hits of this row as
\* the column that looked up and the column that had stored the entry
cache_use(dir, indices, row, d, owner) ==
    LET RECURSIVE loop(_, _, _, _)
        loop(col_index, c, o, reads) ==
            IF col_index >= Len(row) THEN [owner |-> o, reads |-> reads]
            ELSE LET val == row[col_index + 1]
                 IN  IF col_index \notin indices THEN loop(col_index + 1, c, o, reads)
                     ELSE IF contains(c, val)
                     THEN loop(col_index + 1, c, o,
                               reads \cup {[col |-> col_index,
                                            from |-> (CHOOSE e \in o : py_eq(e.k, val)).col]})
                     ELSE loop(col_index + 1, memo(dir, val, c).cache,
                               o \cup {[k |-> val, col |-> col_index]}, reads)
    IN  loop(0, d, owner, {})

-----------------------------------------------------------------------------
(* The DataFrame of a .csv file: its columns in order, each with its name  *)
(* and its cells                                                           *)

Column(name, cells) == [name |-> name, cells |-> cells]

\* df.columns
columns_of(frame) == [i \in 1..Len(frame) |-> frame[i].name]

\* df.columns.get_loc(col), counted from 0
get_loc(frame, col) == (CHOOSE i \in 1..Len(frame) : frame[i].name = col) - 1

\* df[col]
series_of(frame, col) == frame[get_loc(frame, col) + 1].cells

\* df.drop(columns=[col], inplace=True)
drop(frame, col) == SelectSeq(frame, LAMBDA c : c.name # col)

\* the new column put after the last one
insert_last(frame, idx, name, series) ==
    IF \E i \in 1..Len(frame) : frame[i].name = name
    THEN [raised |-> TRUE, df |-> frame]
    ELSE [raised |-> FALSE, df |-> Append(frame, Column(name, series))]

\* df.insert(idx, name, series): ValueError when the frame already has a
\* column of that name
insert(frame, idx, name, series) ==
    IF \E i \in 1..Len(frame) : frame[i].name = name
    THEN [raised |-> TRUE, df |-> frame]
    ELSE [raised |-> FALSE,
          df |-> SubSeq(frame, 1, idx) \o <<Column(name, series)>>
                     \o SubSeq(frame, idx + 1, Len(frame))]

\* .fillna('N/A')
fillna(x) == IF x = NaN \/ x = None THEN Text(NA) ELSE x
\* .replace(r'^\s*$', 'N/A', regex=True)
replace_blank(x) == IF x.kind = "str" /\ strip(x.s) = <<>> THEN Text(NA) ELSE x
\* .replace(['none', 'nan'], 'N/A')
replace_none_nan(x) == IF x \in {Text(<<"n", "o", "n", "e">>), Text(<<"n", "a", "n">>)} THEN Text(NA) ELSE x

\* series.apply(lambda x: memo_...(x, cache)) on the cache d
apply(dir, series, d) ==
    LET RECURSIVE loop(_, _, _)
        next(r, out, m) == loop(r + 1, Append(out, Text(m.ret)), m.cache)
        loop(r, out, c) ==
            IF r > Len(series) THEN [series |-> out, cache |-> c]
            ELSE next(r, out, memo(dir, series[r], c))
    IN  loop(1, <<>>, d)

\* one pass of the loop of insert_sanitized_columns
insert_sanitized_column(policy, frame, col, idx) ==
    LET series == [r \in 1..Len(series_of(frame, col)) |->
                       replace_none_nan(replace_blank(fillna(series_of(frame, col)[r])))]
        processed_series == apply("sanitize", series, {}).series
        new_col_name == get_sanitized_column_name(policy, col)
    IN  insert(drop(frame, col), idx, new_col_name, processed_series)

\* one pass of the loop of insert_desanitized_columns: Auto_sanitization.py
\* tests col == 'External part ID' and names the new column 'External Part'
insert_desanitized_column(var, policy, frame, col, idx) ==
    LET processed_series == apply("desanitize", series_of(frame, col), {}).series
        selected == IF var = "auto" THEN col = <<"E", "x", "t", "e", "r", "n", "a", "l", " ", "p", "a", "r", "t", " ", "I", "D">>
                    ELSE lower(col) \in DOMAIN policy
        new_col_name == IF var = "auto" THEN <<"E", "x", "t", "e", "r", "n", "a", "l", " ", "P", "a", "r", "t">>
                        ELSE get_desanitized_column_name(policy, col)
    IN  IF selected THEN insert(drop(frame, col), idx, new_col_name, processed_series)
        ELSE [raised |-> FALSE, df |-> frame]

\* columns_to_add / columns_to_process of process_file_*: the names of the
\* frame's columns that the policy selects, in the frame's order
columns_to_process(var, dir, policy, frame) ==
    LET selected(col) ==
            IF dir = "sanitize" THEN lower(col) \in DOMAIN policy
            ELSE IF var = "auto" THEN col = <<"E", "x", "t", "e", "r", "n", "a", "l", " ", "p", "a", "r", "t", " ", "I", "D">>
            ELSE lower(col) \in DOMAIN policy
    IN  SelectSeq(columns_of(frame), selected)

\* columns_with_index.sort(key=lambda x: x[1], reverse=True)
RECURSIVE sort_reverse(_)
sort_reverse(pairs) ==
    IF pairs = <<>> THEN <<>>
    ELSE LET m == CHOOSE i \in 1..Len(pairs) :
                      \A j \in 1..Len(pairs) : pairs[j].idx <= pairs[i].idx
         IN  <<pairs[m]>> \o sort_reverse(SubSeq(pairs, 1, m - 1) \o SubSeq(pairs, m + 1, Len(pairs)))

\* [(col, df.columns.get_loc(col)) for col in columns_to_add], sorted
columns_with_index_of(frame, cols) ==
    sort_reverse([i \in 1..Len(cols) |-> [col |-> cols[i], idx |-> get_loc(frame, cols[i])]])

-----------------------------------------------------------------------------
(* Inputs *)

RECURSIVE SeqsUpTo(_, _)
SeqsUpTo(S, n) ==
    IF n = 0 THEN {<<>>}
    ELSE LET shorter == SeqsUpTo(S, n - 1)
         IN  shorter \cup {Append(q, x) : q \in {r \in shorter : Len(r) = n - 1}, x \in S}

\* characters of the enumerated text cells
StrAlphabet == {"a", "z", "9", "_", " "}

\* the strings the specification's scenarios and sentinels name, and strings
\* with tabs, symbols and more than four non-space characters
ScenarioStrings ==
    { <<"a", "b", "_", "1", "2">>, <<"b", "c", "_", "2", "3">>, <<"z", "9">>, <<"b", "1">>,
      NA, <<"M", "/", "Z">>, <<"X", "1">>,
      <<"n", "a", "n">>, <<"N", "a", "N">>, <<"N", "A", "N">>, <<"n", "A", "n">>,
      <<"n", "o", "n", "e">>, <<"N", "o", "n", "e">>, <<"N", "O", "N", "E">>,
      <<"n", "o", "N", "e">>, <<"n", "a", "n", "o">>, <<" ", "n", "a", "n">>,
      <<"\t">>, <<" ", "\t", " ">>, <<"\t", "a">>, <<"a", "\t", "Z">>,
      <<" ", "a", " ", "b", "-", "Y", " ", "Z", "8", " ">>,
      <<"z", "Z", "9", ".", "y", "(", "0", ")", "A", "a">> }

MaxNum == 2

CellNumbers ==
    {IntV(n) : n \in 0..MaxNum} \cup {FloatV(t) : t \in {0, 5, 10, 15}}
        \cup {BoolV(b) : b \in BOOLEAN}

CellValues ==
    {None} \cup {Text(s) : s \in SeqsUpTo(StrAlphabet, MaxLen) \cup ScenarioStrings}
        \cup CellNumbers

\* values of one memoized column pass
MemoValues ==
    {None, Text(<<>>), Text(<<" ">>), Text(<<"X", "1">>), Text(<<"n", "a", "n">>),
     Text(<<"1">>), IntV(1), FloatV(10), FloatV(15), BoolV(TRUE), IntV(0), BoolV(FALSE)}

MaxPass == 3

-----------------------------------------------------------------------------
(* Variables a specification does not use keep these values *)

CharIdle   == c_in = "_" /\ c_out = "_" /\ c_calls = <<>>
CipherIdle == value = None /\ result = None /\ calls = <<>>
MemoIdle   ==
    /\ cache = {} /\ direction = "sanitize"
    /\ vals = <<>> /\ rets = <<>> /\ hits = <<>> /\ computed = 0
EngineIdle ==
    /\ variant = "auto" /\ mode = "none" /\ pc = "idle"
    /\ SANITIZATION_COLUMNS = <<>> /\ DESANITIZATION_COLUMNS = <<>>
    /\ row_index = 0 /\ row_list = <<>> /\ new_header = <<>> /\ new_row = <<>>
    /\ processed_indices = {} /\ cache_dict = {} /\ n_written = 0
    /\ col_input = "" /\ config_file = Unreadable
    /\ df_in = <<>> /\ df = <<>> /\ columns_with_index = <<>>
    /\ cache_owner = {} /\ cache_reads = {}

-----------------------------------------------------------------------------
(* Specification of the shift functions on one character *)

CharInit ==
    /\ c_in \in Chars /\ c_out = c_in /\ c_calls = <<>>
    /\ CipherIdle /\ MemoIdle /\ EngineIdle

ShiftCharForward ==
    /\ Len(c_calls) < MaxCharCalls
    /\ c_out' = shift_char_forward(c_out)
    /\ c_calls' = Append(c_calls, "shift_char_forward")
    /\ UNCHANGED <<c_in, cipherVars, memoVars, runVars>>

ShiftCharBackward ==
    /\ Len(c_calls) < MaxCharCalls
    /\ c_out' = shift_char_backward(c_out)
    /\ c_calls' = Append(c_calls, "shift_char_backward")
    /\ UNCHANGED <<c_in, cipherVars, memoVars, runVars>>

CharNext == ShiftCharForward \/ ShiftCharBackward

SpecChar == CharInit /\ [][CharNext]_vars

-----------------------------------------------------------------------------
(* Specification of the cipher functions on one cell value *)

CipherInit ==
    /\ value \in CellValues /\ result = value /\ calls = <<>>
    /\ CharIdle /\ MemoIdle /\ EngineIdle

\* shift_edges_chars(s, shift_char_forward) on a str
ShiftEdgesForward ==
    /\ Len(calls) < MaxCalls
    /\ result.kind = "str"
    /\ result' = Text(shift_edges_chars(result.s, "shift_char_forward", count_default))
    /\ calls' = Append(calls, "shift_edges_forward")
    /\ UNCHANGED <<value, charVars, memoVars, runVars>>

\* shift_edges_chars(s, shift_char_backward) on a str
ShiftEdgesBackward ==
    /\ Len(calls) < MaxCalls
    /\ result.kind = "str"
    /\ result' = Text(shift_edges_chars(result.s, "shift_char_backward", count_default))
    /\ calls' = Append(calls, "shift_edges_backward")
    /\ UNCHANGED <<value, charVars, memoVars, runVars>>

Sanitize ==
    /\ Len(calls) < MaxCalls
    /\ result' = Text(sanitize(result))
    /\ calls' = Append(calls, "sanitize")
    /\ UNCHANGED <<value, charVars, memoVars, runVars>>

Desanitize ==
    /\ Len(calls) < MaxCalls
    /\ result' = Text(desanitize(result))
    /\ calls' = Append(calls, "desanitize")
    /\ UNCHANGED <<value, charVars, memoVars, runVars>>

CipherNext == ShiftEdgesForward \/ ShiftEdgesBackward \/ Sanitize \/ Desanitize

SpecCipher == CipherInit /\ [][CipherNext]_vars

-----------------------------------------------------------------------------
(* Specification of one memoized pass over a column: every call of the pass *)
(* uses the one dict created for it                                         *)

MemoInit ==
    /\ cache = {} /\ direction \in {"sanitize", "desanitize"}
    /\ vals = <<>> /\ rets = <<>> /\ hits = <<>> /\ computed = 0
    /\ CharIdle /\ CipherIdle /\ EngineIdle

MemoCall(val, r) ==
    /\ cache' = r.cache
    /\ vals' = Append(vals, val)
    /\ rets' = Append(rets, r.ret)
    /\ hits' = Append(hits, r.hit)
    /\ computed' = IF r.hit THEN computed ELSE computed + 1
    /\ UNCHANGED <<direction, charVars, cipherVars, runVars>>

MemoSanitize ==
    /\ direction = "sanitize" /\ Len(vals) < MaxPass
    /\ \E val \in MemoValues : MemoCall(val, memo_sanitize(val, cache))

MemoDesanitize ==
    /\ direction = "desanitize" /\ Len(vals) < MaxPass
    /\ \E val \in MemoValues : MemoCall(val, memo_desanitize(val, cache))

MemoNext == MemoSanitize \/ MemoDesanitize

SpecMemo == MemoInit /\ [][MemoNext]_vars

-----------------------------------------------------------------------------
(* Specification of a run on one workbook: main() sets the mode and the     *)
(* column policy, then each sheet's rows are read, rewritten and written    *)
(* one at a time                                                            *)

\* a data row is at most this many cells longer than its sheet's header
MaxExtraCells == 1
\* most data rows read from one sheet
MaxRows == 2

h_id            == Text(<<"i", "d">>)
h_qty           == Text(<<"q", "t", "y">>)
h_External_Part == Text(<<"E", "x", "t", "e", "r", "n", "a", "l", " ", "P", "a", "r", "t">>)
h_EX_PART       == Text(<<"E", "X", "_", "P", "A", "R", "T">>)
h_external_part == Text(<<"e", "x", "t", "e", "r", "n", "a", "l", " ", "p", "a", "r", "t">>)
h_Internal_Part == Text(<<"I", "n", "t", "e", "r", "n", "a", "l", " ", "P", "a", "r", "t">>)
h_External_part_ID == Text(<<"E", "x", "t", "e", "r", "n", "a", "l", " ", "p", "a", "r", "t", " ", "I", "D">>)
h_External_Part_ID == Text(<<"E", "x", "t", "e", "r", "n", "a", "l", " ", "P", "a", "r", "t", " ", "I", "D">>)

\* first rows of the sheets
HeaderRows ==
    { <<h_id, h_External_Part, h_qty>>,
      <<h_EX_PART, h_Internal_Part>>,
      <<h_external_part, h_External_Part>>,
      <<h_id, h_External_part_ID>>,
      <<h_External_Part_ID, h_id>>,
      <<None, h_External_Part>>,
      <<h_External_Part, IntV(7)>>,
      <<h_id>>,
      <<>> }

\* cells of the data rows
CellChoices == {None, Text(<<"z", "9">>)}
\* rows shorter than, as long as and longer than a header of the given length
DataRows(width) == SeqsUpTo(CellChoices, width + MaxExtraCells)

\* contents of column_sanitization.txt / column_desanitization.txt
SanitizationFiles ==
    { Unreadable,
      Mapping(<<>>),
      Mapping(<< <<<<"E", "x", "t", "e", "r", "n", "a", "l", " ", "P", "a", "r", "t">>, <<"e", "x", "t", "e", "r", "n", "a", "l", "_", "p", "a", "r", "t", "_", "s", "a", "n", "i", "t", "i", "z", "e", "d">>>> >>),
      Mapping(<< <<<<"i", "d">>, <<"m", "a", "s", "k", "e", "d">>>>, <<<<"Q", "T", "Y">>, <<"m", "a", "s", "k", "e", "d">>>> >>) }
DesanitizationFiles ==
    { Unreadable,
      Mapping(<< <<<<"E", "x", "t", "e", "r", "n", "a", "l", " ", "P", "a", "r", "t", " ", "I", "D">>, <<"E", "x", "t", "e", "r", "n", "a", "l", " ", "P", "a", "r", "t">>>> >>) }

\* most rows of a .csv file
MaxCsvRows == 1

\* cells of the .csv files: missing, blank, "none" and a part number
CsvCells == {NaN, Text(<<" ">>), Text(<<"n", "o", "n", "e">>), Text(<<"z", "9">>)}

\* header lines of the .csv files
CsvHeaders ==
    { <<<<"E", "X", "_", "P", "A", "R", "T">>, <<"i", "d">>, <<"I", "n", "t", "e", "r", "n", "a", "l", " ", "P", "a", "r", "t">>>>,
      <<<<"E", "x", "t", "e", "r", "n", "a", "l", " ", "P", "a", "r", "t">>, <<"e", "x", "_", "p", "a", "r", "t">>>>,
      <<<<"i", "d">>, <<"E", "x", "t", "e", "r", "n", "a", "l", " ", "p", "a", "r", "t", " ", "I", "D">>>>,
      <<<<"E", "x", "t", "e", "r", "n", "a", "l", " ", "P", "a", "r", "t", " ", "I", "D">>, <<"i", "d">>>>,
      <<<<"i", "d">>>> }

RECURSIVE SeqsOfLen(_, _)
SeqsOfLen(S, n) ==
    IF n = 0 THEN {<<>>} ELSE {Append(q, x) : q \in SeqsOfLen(S, n - 1), x \in S}

\* the frames pd.read_csv delivers: every header with 0..MaxCsvRows rows
Frames ==
    UNION { { [i \in 1..Len(h) |-> Column(h[i], cells[i])] :
                  cells \in SeqsOfLen(SeqsOfLen(CsvCells, n), Len(h)) } :
            h \in CsvHeaders, n \in 0..MaxCsvRows }

EngineInit ==
    /\ variant \in {"auto", "manual"}
    /\ mode = "none" /\ pc = "main"
    /\ SANITIZATION_COLUMNS = DEFAULT_SANITIZATION_COLUMNS
    /\ DESANITIZATION_COLUMNS =
           IF variant = "manual" THEN DEFAULT_DESANITIZATION_COLUMNS ELSE <<>>
    /\ row_index = 0 /\ row_list = <<>> /\ new_header = <<>> /\ new_row = <<>>
    /\ processed_indices = {} /\ cache_dict = {} /\ n_written = 0
    /\ col_input = "" /\ config_file = Unreadable
    /\ df_in = <<>> /\ df = <<>> /\ columns_with_index = <<>>
    /\ cache_owner = {} /\ cache_reads = {}
    /\ CharIdle /\ CipherIdle /\ MemoIdle

\* the locals of one sheet: cache_dict = {}, processed_indices = set(), a new
\* output file, enumerate(...) from 0.  row_list, new_header and new_row of
\* the sheet before are dead: each is assigned again before it is read.
OpenSheet ==
    /\ cache_dict' = {} /\ processed_indices' = {} /\ row_index' = 0 /\ n_written' = 0
    /\ row_list' = <<>> /\ new_header' = <<>> /\ new_row' = <<>>
    /\ cache_owner' = {} /\ cache_reads' = {}

\* main(): "y" sanitizes.  Auto_sanitization.py has only its built-in column
\* list; Auto_sanitization_manual.py asks col_input: "y" takes a copy of the
\* default list, any other answer ("n" here) loads column_sanitization.txt.
MainSanitize ==
    /\ pc = "main"
    /\ mode' = "sanitize"
    /\ \/ /\ variant = "auto"
          /\ UNCHANGED <<SANITIZATION_COLUMNS, col_input, config_file>>
       \/ /\ variant = "manual"
          /\ col_input' = "y"
          /\ SANITIZATION_COLUMNS' = DEFAULT_SANITIZATION_COLUMNS
          /\ UNCHANGED config_file
       \/ /\ variant = "manual"
          /\ col_input' = "n"
          /\ \E file \in SanitizationFiles :
                 /\ config_file' = file
                 /\ SANITIZATION_COLUMNS' = load_global_sanitization_config(file)
    /\ pc' = "file"
    /\ UNCHANGED <<variant, DESANITIZATION_COLUMNS, row_index, row_list, new_header, new_row,
                   processed_indices, cache_dict, n_written, frameVars,
                   traceVars, charVars, cipherVars, memoVars>>

\* main(): "n" desanitizes, the column list chosen the same way
MainDesanitize ==
    /\ pc = "main"
    /\ mode' = "desanitize"
    /\ \/ /\ variant = "auto"
          /\ UNCHANGED <<DESANITIZATION_COLUMNS, col_input, config_file>>
       \/ /\ variant = "manual"
          /\ col_input' = "y"
          /\ DESANITIZATION_COLUMNS' = DEFAULT_DESANITIZATION_COLUMNS
          /\ UNCHANGED config_file
       \/ /\ variant = "manual"
          /\ col_input' = "n"
          /\ \E file \in DesanitizationFiles :
                 /\ config_file' = file
                 /\ DESANITIZATION_COLUMNS' = load_global_desanitization_config(file)
    /\ pc' = "file"
    /\ UNCHANGED <<variant, SANITIZATION_COLUMNS, row_index, row_list, new_header, new_row,
                   processed_indices, cache_dict, n_written, frameVars,
                   traceVars, charVars, cipherVars, memoVars>>

\* main(): any other answer ends the run
MainInvalid ==
    /\ pc = "main"
    /\ pc' = "done"
    /\ UNCHANGED <<variant, mode, SANITIZATION_COLUMNS, DESANITIZATION_COLUMNS, row_index,
                   row_list, new_header, new_row, processed_indices, cache_dict, n_written,
                   traceVars, charVars, cipherVars, memoVars, mainVars, frameVars>>

\* process_file_*: the file is an .xlsx workbook, its first sheet is opened
ProcessXlsx ==
    /\ pc = "file"
    /\ pc' = "sheet" /\ OpenSheet
    /\ UNCHANGED <<variant, mode, SANITIZATION_COLUMNS, DESANITIZATION_COLUMNS,
                   charVars, cipherVars, memoVars, mainVars, frameVars>>

policy_of(dir) == IF dir = "sanitize" THEN SANITIZATION_COLUMNS ELSE DESANITIZATION_COLUMNS

\* process_file_*: the file is a .csv, read into a DataFrame; the selected
\* columns are listed with their indices, highest index first
ReadCsv ==
    /\ pc = "file"
    /\ \E frame \in Frames :
           /\ df_in' = frame
           /\ df' = frame
           /\ columns_with_index' =
                  columns_with_index_of(frame,
                      columns_to_process(variant, mode, policy_of(mode), frame))
    /\ pc' = "frame"
    /\ UNCHANGED <<variant, mode, SANITIZATION_COLUMNS, DESANITIZATION_COLUMNS, row_index,
                   row_list, new_header, new_row, processed_indices, cache_dict, n_written,
                   traceVars, charVars, cipherVars, memoVars, mainVars>>

\* one pass of the loop of insert_sanitized_columns / insert_desanitized_columns
InsertColumn ==
    /\ pc = "frame" /\ columns_with_index # <<>>
    /\ \E col \in {columns_with_index[1].col}, idx \in {columns_with_index[1].idx} :
         \E r \in { IF mode = "sanitize"
                    THEN insert_sanitized_column(SANITIZATION_COLUMNS, df, col, idx)
                    ELSE insert_desanitized_column(variant, DESANITIZATION_COLUMNS,
                                                   df, col, idx) } :
             /\ df' = r.df
             /\ IF r.raised
                THEN pc' = "raised" /\ UNCHANGED columns_with_index
                ELSE pc' = "frame" /\ columns_with_index' = Tail(columns_with_index)
    /\ UNCHANGED <<variant, mode, SANITIZATION_COLUMNS, DESANITIZATION_COLUMNS, row_index,
                   row_list, new_header, new_row, processed_indices, cache_dict, n_written,
                   df_in, traceVars, charVars, cipherVars, memoVars, mainVars>>

\* df.to_csv(...) after the loop
WriteCsv ==
    /\ pc = "frame" /\ columns_with_index = <<>>
    /\ pc' = "done"
    /\ UNCHANGED <<variant, mode, SANITIZATION_COLUMNS, DESANITIZATION_COLUMNS, row_index,
                   row_list, new_header, new_row, processed_indices, cache_dict, n_written,
                   traceVars, charVars, cipherVars, memoVars, mainVars, frameVars>>

header_of(row) ==
    IF mode = "sanitize" THEN sanitize_header(variant, SANITIZATION_COLUMNS, row)
    ELSE desanitize_header(variant, DESANITIZATION_COLUMNS, row)

\* row_index == 0: the header is rewritten and written, unless the loop raises
HeaderRow ==
    /\ pc = "sheet" /\ row_index = 0
    /\ \E row \in HeaderRows :
          LET h == header_of(row)
          IN  /\ row_list' = row
              /\ IF h.raised
                 THEN /\ pc' = "raised"
                      /\ UNCHANGED <<new_header, processed_indices, n_written, row_index>>
                 ELSE /\ new_header' = h.new_header
                      /\ processed_indices' = h.processed_indices
                      /\ n_written' = n_written + 1
                      /\ row_index' = row_index + 1
                      /\ pc' = "sheet"
    /\ UNCHANGED <<variant, mode, SANITIZATION_COLUMNS, DESANITIZATION_COLUMNS, new_row,
                   cache_dict, traceVars, charVars, cipherVars, memoVars, mainVars, frameVars>>

\* row_index > 0: one row is rewritten and written
DataRow ==
    /\ pc = "sheet" /\ row_index > 0 /\ row_index <= MaxRows
    /\ \E row \in DataRows(Len(new_header)) :
          LET r == data_row(mode, processed_indices, row, cache_dict)
          IN  /\ row_list' = row
              /\ new_row' = r.new_row
              /\ cache_dict' = r.cache_dict
              /\ LET u == cache_use(mode, processed_indices, row, cache_dict, cache_owner)
                 IN  cache_owner' = u.owner /\ cache_reads' = u.reads
    /\ n_written' = n_written + 1
    /\ row_index' = row_index + 1
    /\ UNCHANGED <<variant, mode, SANITIZATION_COLUMNS, DESANITIZATION_COLUMNS, pc,
                   new_header, processed_indices, charVars, cipherVars, memoVars, mainVars, frameVars>>

\* the sheet has no more rows and the workbook has another sheet (after a
\* sheet without rows the locals are what they were: no step)
NextSheet ==
    /\ pc = "sheet"
    /\ row_index > 0
    /\ OpenSheet
    /\ UNCHANGED <<variant, mode, SANITIZATION_COLUMNS, DESANITIZATION_COLUMNS, pc,
                   charVars, cipherVars, memoVars, mainVars, frameVars>>

\* the last sheet has no more rows: workbook.close()
CloseWorkbook ==
    /\ pc = "sheet"
    /\ pc' = "done"
    /\ UNCHANGED <<variant, mode, SANITIZATION_COLUMNS, DESANITIZATION_COLUMNS, row_index,
                   row_list, new_header, new_row, processed_indices, cache_dict, n_written,
                   traceVars, charVars, cipherVars, memoVars, mainVars, frameVars>>

EngineNext ==
    \/ MainSanitize \/ MainDesanitize \/ MainInvalid
    \/ ProcessXlsx \/ HeaderRow \/ DataRow \/ NextSheet \/ CloseWorkbook
    \/ ReadCsv \/ InsertColumn \/ WriteCsv

SpecEngine == EngineInit /\ [][EngineNext]_vars

-----------------------------------------------------------------------------
(* Claims about the shift functions (SpecChar) *)

InRanges(c) == c \in Range(lowercase) \cup Range(uppercase) \cup Range(digits)

\* the successor of c in its own range, the last character wrapping to the first
Successor(c) ==
    LET r == CHOOSE q \in {lowercase, uppercase, digits} : c \in Range(q)
    IN  r[(IndexOf(r, c) % Len(r)) + 1]

\* C2: for every character c, shift_char_backward(shift_char_forward(c)) = c
\* and shift_char_forward(shift_char_backward(c)) = c.
BijectionLaw ==
    (\/ c_calls = <<"shift_char_forward", "shift_char_backward">>
     \/ c_calls = <<"shift_char_backward", "shift_char_forward">>) => c_out = c_in

BijectionWitness ==
    c_in = "z" /\ c_calls = <<"shift_char_forward", "shift_char_backward">> /\ c_out = "z"

\* C3: shift_char_forward maps a character of a..z, A..Z, 0..9 to its successor
\* in the same range (z to a, Z to A, 9 to 0), and every other character is a
\* fixed point of shift_char_forward and of shift_char_backward.
ReferenceRotation ==
    /\ (c_calls = <<"shift_char_forward">> /\ InRanges(c_in)) => c_out = Successor(c_in)
    /\ (Len(c_calls) = 1 /\ ~InRanges(c_in)) => c_out = c_in

ReferenceRotationWitness ==
    c_in = "Z" /\ c_calls = <<"shift_char_forward">> /\ c_out = "A"

-----------------------------------------------------------------------------
(* Claims about the cipher (SpecCipher) *)

\* C1: shift_edges_chars(shift_edges_chars(s, shift_char_forward),
\* shift_char_backward) = s for every string s.
RoundTrip ==
    calls = <<"shift_edges_forward", "shift_edges_backward">> => result = value

RoundTripWitness ==
    /\ calls = <<"shift_edges_forward", "shift_edges_backward">>
    /\ value = Text(<<"z", " ", "9">>)
    /\ result = value

NonSpace(s) == {i \in 1..Len(s) : s[i] # " "}
FirstNonSpace(s, k) == {i \in NonSpace(s) : Cardinality({j \in NonSpace(s) : j < i}) < k}
LastNonSpace(s, k) == {i \in NonSpace(s) : Cardinality({j \in NonSpace(s) : j > i}) < k}

\* how many of the two edge sets hold position i
Visits(s, i) ==
    (IF i \in FirstNonSpace(s, 2) THEN 1 ELSE 0) + (IF i \in LastNonSpace(s, 2) THEN 1 ELSE 0)

RECURSIVE Times(_, _, _)
Times(shift_func, n, c) ==
    IF n = 0 THEN c ELSE Times(shift_func, n - 1, call(shift_func, c))

EdgeShifted(s, shift_func) == [i \in 1..Len(s) |-> Times(shift_func, Visits(s, i), s[i])]

\* C4: in shift_edges_chars(s, f) the character at each position i is f applied
\* n_i times to s[i], n_i the number of the sets {first 2 non-space positions},
\* {last 2 non-space positions} that hold i; sanitize("ab_12") = "bc_23",
\* sanitize("z9") = "b1", and desanitize maps both back.
EdgeShiftReference ==
    /\ calls = <<"shift_edges_forward">>
          => result = Text(EdgeShifted(value.s, "shift_char_forward"))
    /\ calls = <<"shift_edges_backward">>
          => result = Text(EdgeShifted(value.s, "shift_char_backward"))
    /\ (calls = <<"sanitize">> /\ value = Text(<<"a", "b", "_", "1", "2">>))
          => result = Text(<<"b", "c", "_", "2", "3">>)
    /\ (calls = <<"sanitize">> /\ value = Text(<<"z", "9">>))
          => result = Text(<<"b", "1">>)
    /\ (calls = <<"sanitize", "desanitize">>
            /\ value \in {Text(<<"a", "b", "_", "1", "2">>), Text(<<"z", "9">>)})
          => result = value

EdgeShiftWitness ==
    calls = <<"sanitize">> /\ value = Text(<<"z", "9">>) /\ result = Text(<<"b", "1">>)

\* s is w in some letter case (w in lower case)
SameLetters(s, w) ==
    /\ Len(s) = Len(w)
    /\ \A i \in 1..Len(w) : s[i] \in {w[i], uppercase[IndexOf(lowercase, w[i])]}

NullLike(v) ==
    \/ v = None
    \/ \A i \in 1..Len(str(v)) : str(v)[i] \in Whitespace
    \/ SameLetters(str(v), <<"n", "a", "n">>)
    \/ SameLetters(str(v), <<"n", "o", "n", "e">>)

\* C5: sanitize(value) is "N/A" when value is None or str(value) is empty, all
\* whitespace, or "nan" / "none" in any letter case; for every other value it
\* is shift_edges_chars(str(value), shift_char_forward).
SentinelLaw ==
    calls = <<"sanitize">> =>
        result = Text(IF NullLike(value) THEN <<"N", "/", "A">>
                      ELSE shift_edges_chars(str(value), "shift_char_forward", 2))

SentinelWitness ==
    calls = <<"sanitize">> /\ value = Text(<<"N", "a", "N">>) /\ result = Text(NA)

\* C6: desanitize(None) is the empty string; for every other value desanitize
\* is shift_edges_chars(str(value), shift_char_backward), the literal "N/A"
\* ("", blank, "nan", "none") being shifted like any other string.
DesanitizeAsymmetry ==
    calls = <<"desanitize">> =>
        /\ result = Text(IF value = None THEN <<>>
                         ELSE shift_edges_chars(str(value), "shift_char_backward", 2))
        /\ value = Text(NA) => result = Text(<<"M", "/", "Z">>)
        /\ value = Text(<<"n", "a", "n">>) => result = Text(<<"m", "y", "m">>)
        /\ value = Text(<<"n", "o", "n", "e">>) => result = Text(<<"m", "n", "m", "d">>)
        /\ value \in {Text(<<>>), Text(<<" ">>)} => result = value

DesanitizeWitness ==
    calls = <<"desanitize">> /\ value = Text(NA) /\ result = Text(<<"M", "/", "Z">>)

-----------------------------------------------------------------------------
(* Claims about the memoized pass (SpecMemo) *)

Fresh(val) == IF direction = "sanitize" THEN sanitize(val) ELSE desanitize(val)

\* C7: every value returned on a cache hit equals what sanitize (desanitize)
\* returns for that same value computed fresh.
CacheSound ==
    \A i \in 1..Len(vals) : hits[i] => rets[i] = Fresh(vals[i])

\* C8: a value that occurs several times in the pass yields the same string on
\* every occurrence, and sanitize / desanitize is computed once per distinct
\* value: the number of computations is the number of distinct values seen.
MemoThroughput ==
    /\ \A i, j \in 1..Len(vals) : vals[i] = vals[j] => rets[i] = rets[j]
    /\ computed = Cardinality(Range(vals))

-----------------------------------------------------------------------------
(* Claims about the streaming rewrite (SpecEngine) *)

\* a data row of the current sheet has been written: row_list is the row read
\* and new_row the row written
RowWritten == pc \in {"sheet", "done"} /\ row_index >= 2

\* the header of the current sheet has just been written: row_list is the
\* header read and new_header the header written
HeaderWritten == pc \in {"sheet", "done"} /\ row_index = 1

\* C9: every data row written has the length of the header written, also when
\* the row read is shorter or longer than the header; the positions a short row
\* lacks are written as missing (None) values.
RowShape ==
    RowWritten =>
        /\ Len(new_row) = Len(new_header)
        /\ \A i \in (Len(row_list) + 1)..Len(new_header) :
               new_row[i] = IF (i - 1) \in processed_indices
                            THEN Text(memo(mode, None, {}).ret) ELSE None

ScenarioHeader == <<h_id, h_External_Part, h_qty>>
ScenarioPolicy == (<<"e", "x", "t", "e", "r", "n", "a", "l", " ", "p", "a", "r", "t">> :> <<"e", "x", "t", "e", "r", "n", "a", "l", "_", "p", "a", "r", "t", "_", "s", "a", "n", "i", "t", "i", "z", "e", "d">>)
external_part_sanitized == Text(<<"e", "x", "t", "e", "r", "n", "a", "l", "_", "p", "a", "r", "t", "_", "s", "a", "n", "i", "t", "i", "z", "e", "d">>)

ScenarioRun ==
    /\ mode = "sanitize"
    /\ <<"e", "x", "t", "e", "r", "n", "a", "l", " ", "p", "a", "r", "t">> \in DOMAIN SANITIZATION_COLUMNS
    /\ SANITIZATION_COLUMNS[<<"e", "x", "t", "e", "r", "n", "a", "l", " ", "p", "a", "r", "t">>] = external_part_sanitized.s

-----------------------------------------------------------------------------
(* Column resolution when masking *)

\* the header cells that are names
IsName(cell) == cell # None /\ cell.kind = "str"

\* C11: once a masking header is written, a name h of the input header is
\* selected exactly when lowercase(h) is a key of the policy, its output name
\* is the policy's value at lowercase(h) whatever the case of h, and two
\* cells whose names agree up to case resolve to the same output name
CaseInsensitiveResolution ==
    (HeaderWritten /\ mode = "sanitize") =>
        /\ \A i \in 1..Len(row_list) :
               IsName(row_list[i]) =>
                   /\ (i - 1 \in processed_indices) <=>
                          (lower(row_list[i].s) \in DOMAIN SANITIZATION_COLUMNS)
                   /\ (i - 1 \in processed_indices) =>
                          new_header[i] = Text(SANITIZATION_COLUMNS[lower(row_list[i].s)])
        /\ \A i, j \in 1..Len(row_list) :
               (/\ IsName(row_list[i]) /\ IsName(row_list[j])
                /\ lower(row_list[i].s) = lower(row_list[j].s)
                /\ i - 1 \in processed_indices) => new_header[i] = new_header[j]

\* "external part" and "External Part" in one header, both renamed
CaseInsensitiveWitness ==
    /\ HeaderWritten /\ mode = "sanitize"
    /\ row_list = <<h_external_part, h_External_Part>>
    /\ processed_indices = {0, 1}
    /\ new_header = <<Text(<<"e", "x", "t", "e", "r", "n", "a", "l", "_", "p", "a", "r", "t", "_", "s", "a", "n", "i", "t", "i", "z", "e", "d">>), Text(<<"e", "x", "t", "e", "r", "n", "a", "l", "_", "p", "a", "r", "t", "_", "s", "a", "n", "i", "t", "i", "z", "e", "d">>)>>

-----------------------------------------------------------------------------
(* Column lookup when unmasking *)

\* the unmasking policy of a run: Auto_sanitization.py has no mapping, its
\* one source column and output name are those of the manual default
desanitization_policy ==
    IF variant = "auto" THEN DEFAULT_DESANITIZATION_COLUMNS ELSE DESANITIZATION_COLUMNS

\* C12: once an unmasking header is written, in both script variants a name
\* whose lowercase form is a key of the unmasking policy is selected and
\* renamed to the policy's output name, and a name that matches no key is
\* left untouched
DesanitizeCaseInsensitive ==
    (HeaderWritten /\ mode = "desanitize") =>
        \A i \in 1..Len(row_list) :
            IsName(row_list[i]) =>
                IF lower(row_list[i].s) \in DOMAIN desanitization_policy
                THEN /\ i - 1 \in processed_indices
                     /\ new_header[i] = Text(desanitization_policy[lower(row_list[i].s)])
                ELSE /\ i - 1 \notin processed_indices
                     /\ new_header[i] = row_list[i]

-----------------------------------------------------------------------------
(* Failure *)

\* C13: whatever the header cells, the policy and the rows, processing a
\* table never raises
NoFatalError ==
    pc # "raised"

-----------------------------------------------------------------------------
(* Cells outside the selected columns *)

\* a header cell that matches no key of the policy in force
Unmatched(cell) ==
    \/ cell = None
    \/ /\ mode = "sanitize"
       /\ lower(str(cell)) \notin DOMAIN SANITIZATION_COLUMNS
    \/ /\ mode = "desanitize" /\ variant = "manual"
       /\ lower(str(cell)) \notin DOMAIN DESANITIZATION_COLUMNS

\* C14: every cell of a written row at a position that was not selected at
\* header time carries exactly its input value at the same position, and
\* every cell of a written header that matches no key of the policy is
\* written unchanged
UntouchedPassThrough ==
    /\ RowWritten =>
           \A i \in 1..Len(row_list) :
               (i - 1 \notin processed_indices) =>
                   (i <= Len(new_row) /\ new_row[i] = row_list[i])
    /\ HeaderWritten =>
           \A i \in 1..Len(row_list) :
               /\ Unmatched(row_list[i]) => (i - 1 \notin processed_indices)
               /\ (i - 1 \notin processed_indices) =>
                      (i <= Len(new_header) /\ new_header[i] = row_list[i])

\* a row with the same text in a selected and in two unselected columns: only
\* the selected one changes
UntouchedWitness ==
    /\ RowWritten /\ mode = "sanitize"
    /\ new_header = <<h_id, Text(<<"e", "x", "t", "e", "r", "n", "a", "l", "_", "p", "a", "r", "t", "_", "s", "a", "n", "i", "t", "i", "z", "e", "d">>), h_qty>>
    /\ processed_indices = {1}
    /\ row_list = <<Text(<<"z", "9">>), Text(<<"z", "9">>), Text(<<"z", "9">>)>>
    /\ new_row = <<Text(<<"z", "9">>), Text(<<"b", "1">>), Text(<<"z", "9">>)>>

-----------------------------------------------------------------------------
(* Order of the rows *)

\* C15: in every step of a run the first row read from a table is the one
\* row handled as header and it is written before anything else of the
\* table; every later row read is written as one row, straight away, with
\* the header and the selected positions left as the header step set them;
\* so the rows written always number the rows read
HeaderThenRows ==
    [][ /\ HeaderRow => (n_written = 0 /\ n_written' = 1 /\ row_index' = 1)
        /\ DataRow => /\ n_written >= 1
                      /\ n_written' = n_written + 1
                      /\ processed_indices' = processed_indices
                      /\ new_header' = new_header
        /\ (row_index' # row_index \/ row_list' # row_list) =>
               (pc' # "main" => n_written' = row_index') ]_vars

-----------------------------------------------------------------------------
(* The empty policy *)

\* the policy of the run's direction has no key
EmptyPolicy ==
    \/ mode = "sanitize" /\ SANITIZATION_COLUMNS = <<>>
    \/ mode = "desanitize" /\ variant = "manual" /\ DESANITIZATION_COLUMNS = <<>>

\* the mapping file was asked for and could not be loaded
LoadFailed ==
    mode # "none" /\ col_input = "n" /\ ~config_file.readable

\* C16: a failed load of the mapping file leaves the empty policy, and under
\* the empty policy no position is selected, the header is written as read,
\* every data row is written as read, and no column of a .csv file is
\* listed for replacement: the frame written is the frame read
EmptyPolicyTransformsNothing ==
    /\ LoadFailed => EmptyPolicy
    /\ EmptyPolicy =>
           /\ processed_indices = {}
           /\ HeaderWritten => new_header = row_list
           /\ RowWritten => new_row = row_list
           /\ pc \in {"frame", "done"} => (columns_with_index = <<>> /\ df = df_in)

\* the mapping file could not be loaded; a header with two default column
\* names and a row of text were written as read
EmptyPolicyWitness ==
    /\ LoadFailed /\ mode = "sanitize" /\ RowWritten
    /\ new_header = <<h_EX_PART, h_Internal_Part>>
    /\ row_list = <<Text(<<"z", "9">>), Text(<<"z", "9">>)>>
    /\ new_row = row_list

-----------------------------------------------------------------------------
(* The policy main() installs *)

\* no mapping file reached the run: the variant has none, the built-in list
\* was chosen, or the file could not be loaded
NoMappingSupplied ==
    variant = "auto" \/ col_input = "y" \/ LoadFailed

\* the built-in list of the run's direction is the policy in force
DefaultInForce ==
    /\ mode = "sanitize" => SANITIZATION_COLUMNS = DEFAULT_SANITIZATION_COLUMNS
    /\ (mode = "desanitize" /\ variant = "manual") =>
           DESANITIZATION_COLUMNS = DEFAULT_DESANITIZATION_COLUMNS

\* C17 as stated: whenever a run has started and no mapping file was
\* supplied, the file being absent or unreadable included, the built-in
\* default mapping is the policy in force
DefaultOnAbsentConfiguration ==
    (mode # "none" /\ NoMappingSupplied) => DefaultInForce

\* C17: the built-in default mapping is the policy in force whenever it was
\* chosen (col_input "y", or the variant without mapping files); when the
\* mapping file was asked for and could not be loaded the policy in force is
\* the empty mapping
DefaultOnlyWhenChosen ==
    /\ (mode # "none" /\ (variant = "auto" \/ col_input = "y")) => DefaultInForce
    /\ LoadFailed => (EmptyPolicy /\ ~DefaultInForce)

\* column_sanitization.txt could not be loaded and a header naming a default
\* column was written unchanged
DefaultNotUsedWitness ==
    /\ LoadFailed /\ mode = "sanitize" /\ HeaderWritten
    /\ SANITIZATION_COLUMNS = <<>>
    /\ row_list = <<h_id, h_External_Part, h_qty>>
    /\ new_header = row_list

-----------------------------------------------------------------------------
(* The sentinel in the two masking paths *)

\* the test that puts a column of a .csv file among columns_to_add /
\* columns_to_process
SelectedName(col) ==
    IF mode = "sanitize" THEN lower(col) \in DOMAIN SANITIZATION_COLUMNS
    ELSE IF variant = "auto" THEN col = <<"E", "x", "t", "e", "r", "n", "a", "l", " ", "p", "a", "r", "t", " ", "I", "D">>
    ELSE lower(col) \in DOMAIN DESANITIZATION_COLUMNS

\* the columns of the frame as read whose pass of the insert loop is over:
\* selected when the file was read and no longer in columns_with_index
ProcessedColumns ==
    { i \in 1..Len(df_in) :
        /\ SelectedName(df_in[i].name)
        /\ \A k \in 1..Len(columns_with_index) : columns_with_index[k].idx # i - 1 }

\* the loop of insert_*_columns is between two passes or over
BetweenPasses == pc \in {"frame", "done"} /\ df_in # <<>>

\* C18: when masking, a cell of a transformed column that is null, blank or
\* "nan" / "none" is written as "N/A", in a data row of a sheet and in a
\* processed column of a DataFrame alike
SentinelInEveryPath ==
    /\ (RowWritten /\ mode = "sanitize") =>
           \A i \in 1..Len(row_list) :
               (i - 1 \in processed_indices /\ NullLike(row_list[i])) =>
                   new_row[i] = Text(NA)
    /\ (BetweenPasses /\ mode = "sanitize") =>
           \A i \in ProcessedColumns :
               \A r \in 1..Len(df_in[i].cells) :
                   NullLike(df_in[i].cells[r]) => df[i].cells[r] = Text(NA)

-----------------------------------------------------------------------------
(* Column indices in the DataFrame path *)

\* the name insert_*_columns gives the column that replaces col
output_name(col) ==
    IF mode = "sanitize" THEN get_sanitized_column_name(SANITIZATION_COLUMNS, col)
    ELSE IF variant = "auto" THEN <<"E", "x", "t", "e", "r", "n", "a", "l", " ", "P", "a", "r", "t">>
    ELSE get_desanitized_column_name(DESANITIZATION_COLUMNS, col)

\* C19: between the passes of insert_sanitized_columns /
\* insert_desanitized_columns and after the last one, the columns still to
\* do are in descending order of index and lie left of every column done;
\* each column done sits at the index its source had in the frame as read
\* and carries the output name; every other column is at its index as read;
\* the frame has as many columns as were read
IndexBookkeeping ==
    BetweenPasses =>
        /\ \A k \in 1..Len(columns_with_index) :
               /\ k > 1 => columns_with_index[k].idx < columns_with_index[k - 1].idx
               /\ \A i \in ProcessedColumns : columns_with_index[k].idx < i - 1
        /\ Len(df) = Len(df_in)
        /\ \A i \in 1..Len(df_in) :
               IF i \in ProcessedColumns
               THEN /\ df[i].name = output_name(df_in[i].name)
                    /\ Len(df[i].cells) = Len(df_in[i].cells)
               ELSE df[i] = df_in[i]

\* the first and the third column of a three-column file were replaced, the
\* third one first
IndexBookkeepingWitness ==
    /\ pc = "done" /\ mode = "sanitize"
    /\ columns_of(df_in) = <<<<"E", "X", "_", "P", "A", "R", "T">>, <<"i", "d">>, <<"I", "n", "t", "e", "r", "n", "a", "l", " ", "P", "a", "r", "t">>>>
    /\ columns_of(df) = <<<<"e", "x", "t", "e", "r", "n", "a", "l", "_", "p", "a", "r", "t", "_", "s", "a", "n", "i", "t", "i", "z", "e", "d">>, <<"i", "d">>, <<"i", "n", "t", "e", "r", "n", "a", "l", "_", "p", "a", "r", "t", "_", "s", "a", "n", "i", "t", "i", "z", "e", "d">>>>
    /\ ProcessedColumns = {1, 3}
    /\ Len(df[1].cells) = 1

\* the third column is done, the first is still to do
IndexBookkeepingMidway ==
    /\ pc = "frame" /\ mode = "sanitize"
    /\ columns_of(df) = <<<<"E", "X", "_", "P", "A", "R", "T">>, <<"i", "d">>, <<"i", "n", "t", "e", "r", "n", "a", "l", "_", "p", "a", "r", "t", "_", "s", "a", "n", "i", "t", "i", "z", "e", "d">>>>
    /\ columns_with_index = <<[col |-> <<"E", "X", "_", "P", "A", "R", "T">>, idx |-> 0]>>

-----------------------------------------------------------------------------
(* Scope of the cache *)

\* C20: the cache of a table is created when the table is opened and kept
\* from row to row (every entry stored since is still in it), and a lookup
\* made for one column only finds an entry stored for that same column
CachePerColumn ==
    /\ (pc = "sheet" /\ row_index = 0) => cache_dict = {}
    /\ \A o \in cache_owner : \E e \in cache_dict : e.k = o.k
    /\ \A r \in cache_reads : r.from = r.col

-----------------------------------------------------------------------------
(* Collisions of sanitize *)

\* the text cells the cipher specification draws its inputs from
TextValues == {v \in CellValues : v.kind = "str"}

\* C21: when sanitize has been applied to a text cell, another text cell has
\* the same output only if both are null-like, and a cell that is not
\* null-like is not mapped to the sentinel "N/A"
SentinelCollisionFree ==
    (calls = <<"sanitize">> /\ value \in TextValues) =>
        /\ \A w \in TextValues :
               (w # value /\ Text(sanitize(w)) = result) =>
                   (NullLike(value) /\ NullLike(w))
        /\ ~NullLike(value) => result # Text(NA)

====
